---- MODULE Spec2Model ----
(***************************************************************************)
(* Model of app.py: the sentiment-analysis Streamlit script.               *)
(*                                                                         *)
(* A Python str is a sequence of one-character strings, a dict is the      *)
(* sequence of its <<key, value>> items in insertion order, and a raised   *)
(* exception is a record [ok |-> FALSE, exc |-> <exception class>].        *)
(***************************************************************************)
EXTENDS Integers, Sequences, FiniteSets, TLC

VARIABLES pc, tempFile, remote, file, chatFile, reply, result,
          sentiment_data, pie_chart, display, exc, uncaught

vars == <<pc, tempFile, remote, file, chatFile, reply, result,
          sentiment_data, pie_chart, display, exc, uncaught>>

----------------------------------------------------------------------------
(* Bounds of the model. *)

\* A reply of the remote model has at most MaxLines lines.
MaxLines == 4

\* At most MaxOdd lines of a reply are other than the three well-formed
\* label lines `Positive: 40%`, `Negative: 10%`, `Neutral: 50%`.
MaxOdd == 1

----------------------------------------------------------------------------
(* Python str operations used by parse_analysis_result. *)

Whitespace == {" ", "\t", "\n", "\r"}

Digits == <<"0", "1", "2", "3", "4", "5", "6", "7", "8", "9">>

DigitChars == {Digits[i] : i \in 1..10}

DigitValue(c) == (CHOOSE i \in 1..10 : Digits[i] = c) - 1

\* pat in s
Contains(s, pat) ==
    \E i \in 1..(Len(s) - Len(pat) + 1) : SubSeq(s, i, i + Len(pat) - 1) = pat

RECURSIVE FirstNonWs(_, _)
FirstNonWs(s, i) ==
    IF i > Len(s) \/ s[i] \notin Whitespace THEN i ELSE FirstNonWs(s, i + 1)

RECURSIVE LastNonWs(_, _)
LastNonWs(s, i) ==
    IF i < 1 \/ s[i] \notin Whitespace THEN i ELSE LastNonWs(s, i - 1)

\* s.strip()
Strip(s) == SubSeq(s, FirstNonWs(s, 1), LastNonWs(s, Len(s)))

RECURSIVE SplitFrom(_, _, _, _)
SplitFrom(s, sep, i, cur) ==
    IF i > Len(s) THEN <<cur>>
    ELSE IF s[i] = sep THEN <<cur>> \o SplitFrom(s, sep, i + 1, <<>>)
    ELSE SplitFrom(s, sep, i + 1, Append(cur, s[i]))

\* s.split(sep), sep a single character
Split(s, sep) == SplitFrom(s, sep, 1, <<>>)

RECURSIVE SplitWsFrom(_, _, _)
SplitWsFrom(s, i, cur) ==
    IF i > Len(s) THEN (IF cur = <<>> THEN <<>> ELSE <<cur>>)
    ELSE IF s[i] \in Whitespace
         THEN (IF cur = <<>> THEN <<>> ELSE <<cur>>) \o SplitWsFrom(s, i + 1, <<>>)
         ELSE SplitWsFrom(s, i + 1, Append(cur, s[i]))

\* s.split()
SplitWs(s) == SplitWsFrom(s, 1, <<>>)

\* s.replace(c, "")
Remove(s, c) == SelectSeq(s, LAMBDA x : x # c)

RECURSIVE DigitsValue(_, _, _)
DigitsValue(s, i, acc) ==
    IF i > Len(s) THEN acc
    ELSE IF s[i] = "_" THEN DigitsValue(s, i + 1, acc)
    ELSE DigitsValue(s, i + 1, 10 * acc + DigitValue(s[i]))

\* The body of a decimal literal: digits, single underscores between them.
IsDigitString(s) ==
    /\ Len(s) > 0
    /\ \A i \in 1..Len(s) : s[i] \in DigitChars \cup {"_"}
    /\ s[1] # "_" /\ s[Len(s)] # "_"
    /\ \A i \in 1..(Len(s) - 1) : ~(s[i] = "_" /\ s[i + 1] = "_")

\* int(s)
PyInt(s) ==
    LET t    == Strip(s)
        sign == Len(t) > 0 /\ t[1] \in {"+", "-"}
        body == IF sign THEN Tail(t) ELSE t
    IN  IF IsDigitString(body)
        THEN [ok  |-> TRUE,
              val |-> IF sign /\ t[1] = "-" THEN 0 - DigitsValue(body, 1, 0)
                                            ELSE DigitsValue(body, 1, 0)]
        ELSE [ok |-> FALSE, exc |-> "ValueError"]

----------------------------------------------------------------------------
(* parse_analysis_result *)

Positive == <<"P", "o", "s", "i", "t", "i", "v", "e">>
Negative == <<"N", "e", "g", "a", "t", "i", "v", "e">>
Neutral  == <<"N", "e", "u", "t", "r", "a", "l">>

\* ExtractValue without the replace("%", "").
ExtractValue_KeepPercent(line) ==
    LET parts == Split(line, ":")
    IN  IF Len(parts) < 2 THEN [ok |-> FALSE, exc |-> "IndexError"]
        ELSE LET toks == SplitWs(Strip(parts[2]))
             IN  IF Len(toks) < 1 THEN [ok |-> FALSE, exc |-> "IndexError"]
                 ELSE PyInt(toks[1])

\* int(line.split(":")[1].strip().replace("%", "").split()[0])
ExtractValue(line) ==
    LET parts == Split(line, ":")
    IN  IF Len(parts) < 2 THEN [ok |-> FALSE, exc |-> "IndexError"]
        ELSE LET toks == SplitWs(Remove(Strip(parts[2]), "%"))
             IN  IF Len(toks) < 1 THEN [ok |-> FALSE, exc |-> "IndexError"]
                 ELSE PyInt(toks[1])

\* The branch of the if/elif chain the line takes, <<>> when it takes none.
LineKey(line) ==
    IF Contains(line, Positive) THEN Positive
    ELSE IF Contains(line, Negative) THEN Negative
    ELSE IF Contains(line, Neutral) THEN Neutral
    ELSE <<>>

\* DictSet that keeps the first value of a key (d.setdefault(k, v)).
DictSet_KeepFirst(d, k, v) ==
    IF \E i \in 1..Len(d) : d[i][1] = k THEN d ELSE Append(d, <<k, v>>)

\* d[k] = v on a dict: an existing key keeps its position.
DictSet(d, k, v) ==
    IF \E i \in 1..Len(d) : d[i][1] = k
    THEN [i \in 1..Len(d) |-> IF d[i][1] = k THEN <<k, v>> ELSE d[i]]
    ELSE Append(d, <<k, v>>)

\* ScanLines that rejects a line taking no branch of the if/elif chain.
RECURSIVE ScanLines_Strict(_, _, _)
ScanLines_Strict(lines, i, d) ==
    IF i > Len(lines) THEN [ok |-> TRUE, data |-> d]
    ELSE LET k == LineKey(lines[i])
         IN  IF k = <<>> THEN [ok |-> FALSE, exc |-> "ValueError"]
             ELSE LET v == ExtractValue(lines[i])
                  IN  IF v.ok
                      THEN ScanLines_Strict(lines, i + 1, DictSet(d, k, v.val))
                      ELSE v

\* The for loop over the lines, from line i on, with the dict built so far.
RECURSIVE ScanLines(_, _, _)
ScanLines(lines, i, d) ==
    IF i > Len(lines) THEN [ok |-> TRUE, data |-> d]
    ELSE LET k == LineKey(lines[i])
         IN  IF k = <<>> THEN ScanLines(lines, i + 1, d)
             ELSE LET v == ExtractValue(lines[i])
                  IN  IF v.ok THEN ScanLines(lines, i + 1, DictSet(d, k, v.val))
                      ELSE v

\* parse_analysis_result without the len(sentiment_data) != 3 check.
parse_analysis_result_NoCheck(text) ==
    LET scan == ScanLines(Split(Strip(text), "\n"), 1, <<>>)
    IN  IF ~scan.ok THEN [ok |-> FALSE, exc |-> "ValueError", cause |-> scan.exc]
        ELSE scan

parse_analysis_result(text) ==
    LET scan == ScanLines(Split(Strip(text), "\n"), 1, <<>>)
    IN  IF ~scan.ok THEN [ok |-> FALSE, exc |-> "ValueError", cause |-> scan.exc]
        ELSE IF Len(scan.data) # 3
             THEN [ok |-> FALSE, exc |-> "ValueError", cause |-> "Incomplete"]
             ELSE scan

----------------------------------------------------------------------------
(* generate_pie_chart *)

\* colors = ["#4CAF50", "#F44336", "#FFC107"]
colors == <<"green", "red", "yellow">>

\* explode = (0.1, 0.1, 0), in tenths
explode == <<1, 1, 0>>

\* labels = list(data.keys()); sizes = list(data.values())
labels(data) == [i \in 1..Len(data) |-> data[i][1]]
sizes(data) == [i \in 1..Len(data) |-> data[i][2]]

\* ax.pie raises ValueError on a negative wedge size, and on explode or
\* colors of another length than the sizes.
PieRaises(data) ==
    \/ \E i \in 1..Len(data) : sizes(data)[i] < 0
    \/ Len(data) # Len(explode)

\* The wedges ax.pie draws: the i-th wedge takes the i-th label, size,
\* color and explode.
generate_pie_chart(data) ==
    [i \in 1..Len(data) |->
        [label   |-> labels(data)[i],
         size    |-> sizes(data)[i],
         color   |-> colors[i],
         explode |-> explode[i]]]

----------------------------------------------------------------------------
(* The replies the remote model may give, as sequences of lines. *)

LinePositive40 == Positive \o <<":", " ", "4", "0", "%">>
LineNegative10 == Negative \o <<":", " ", "1", "0", "%">>
LineNeutral50  == Neutral \o <<":", " ", "5", "0", "%">>

LinePositive70 == Positive \o <<":", " ", "7", "0", "%">>
LineNegative20 == Negative \o <<":", " ", "2", "0", "%">>
LineNeutral10  == Neutral \o <<":", " ", "1", "0", "%">>

\* Lines that mention none of the three labels.
LineTotal     == <<"T", "o", "t", "a", "l", ":", " ", "1", "0", "0", "%">>
LineLowerCase == <<"n", "e", "u", "t", "r", "a", "l", ":", " ", "9", "%">>
LineBlank     == <<>>

\* Label lines the parser cannot read, or reads differently.
LineNoColon   == Positive \o <<" ", "4", "0", "%">>
LineDecimal   == Neutral \o <<":", " ", "5", "0", ".", "5", "%">>
LineBelowZero == Negative \o <<":", " ", "-", "5", "%">>
LineTwoLabels == Negative \o <<" ", "n", "o", "t", " ">> \o Positive \o <<":", " ", "5", " ", "%">>

WellFormedLines == {LinePositive40, LineNegative10, LineNeutral50}

OddLines ==
    {LinePositive70, LineNegative20, LineNeutral10,
     LineTotal, LineLowerCase, LineBlank,
     LineNoColon, LineDecimal, LineBelowZero, LineTwoLabels}

LinePool == WellFormedLines \cup OddLines

OddCount(r) == Cardinality({i \in 1..Len(r) : r[i] \in OddLines})

Replies ==
    UNION {{r \in [1..n -> LinePool] : OddCount(r) <= MaxOdd} : n \in 0..MaxLines}

\* "\n".join(lines): response.text of a reply
RECURSIVE JoinLines(_)
JoinLines(lines) ==
    IF Len(lines) = 0 THEN <<>>
    ELSE IF Len(lines) = 1 THEN lines[1]
    ELSE lines[1] \o <<"\n">> \o JoinLines(Tail(lines))

----------------------------------------------------------------------------
(* The remote file service. *)

FileStates == {"PROCESSING", "ACTIVE", "FAILED", "STATE_UNSPECIFIED"}

\* Positions of the script inside wait_for_file_active.
PollPcs == {"while", "sleep", "get_file", "check"}

\* The remote service moves the uploaded file to another state, any number
\* of times, while the script sleeps: time passes nowhere else between two
\* reads of the state.
RemoteStep ==
    /\ pc = "sleep"
    /\ \E s \in FileStates \ {remote} : remote' = s
    /\ UNCHANGED <<pc, tempFile, file, chatFile, reply, result,
                   sentiment_data, pie_chart, display, exc, uncaught>>

----------------------------------------------------------------------------
(* The Streamlit script, one run with a file uploaded. *)

Shown(kind, arg) == [kind |-> kind, arg |-> arg]

\* The value of a variable not yet assigned.
None == [ok |-> FALSE, exc |-> "None"]

Init ==
    /\ pc = "persist"
    /\ tempFile = FALSE
    /\ remote = "NONE"
    /\ file = "NONE"
    /\ chatFile = "NONE"
    /\ reply = <<>>
    /\ result = <<>>
    /\ sentiment_data = None
    /\ pie_chart = <<>>
    /\ display = <<>>
    /\ exc = "none"
    /\ uncaught = "none"

\* with open(temp_file_path, "wb") as f: f.write(uploaded_file.read())
PersistOk ==
    /\ pc = "persist"
    /\ tempFile' = TRUE
    /\ pc' = "upload"
    /\ UNCHANGED <<remote, file, chatFile, reply, result, sentiment_data,
                   pie_chart, display, exc, uncaught>>

\* open() raises: no file is created, and no try block is entered yet.
PersistOpenRaises ==
    /\ pc = "persist"
    /\ uncaught' = "persist"
    /\ pc' = "done"
    /\ UNCHANGED <<tempFile, remote, file, chatFile, reply, result,
                   sentiment_data, pie_chart, display, exc>>

\* f.write() raises after open() created the file.
PersistWriteRaises ==
    /\ pc = "persist"
    /\ tempFile' = TRUE
    /\ uncaught' = "persist"
    /\ pc' = "done"
    /\ UNCHANGED <<remote, file, chatFile, reply, result, sentiment_data,
                   pie_chart, display, exc>>

\* The jump to the except clause with the exception raised at a stage.
Raise(stage) ==
    /\ exc' = stage
    /\ pc' = "except"

\* upload_to_gemini: genai.upload_file returns the handle
UploadOk ==
    /\ pc = "upload"
    /\ \E s \in FileStates : remote' = s /\ file' = s
    /\ pc' = "while"
    /\ UNCHANGED <<tempFile, chatFile, reply, result, sentiment_data,
                   pie_chart, display, exc, uncaught>>

UploadRaises ==
    /\ pc = "upload"
    /\ Raise("upload")
    /\ UNCHANGED <<tempFile, remote, file, chatFile, reply, result,
                   sentiment_data, pie_chart, display, uncaught>>

\* while file.state.name == "PROCESSING":
StillProcessing(f) == f = "PROCESSING"

WhileTest ==
    /\ pc = "while"
    /\ pc' = IF StillProcessing(file) THEN "sleep" ELSE "check"
    /\ UNCHANGED <<tempFile, remote, file, chatFile, reply, result,
                   sentiment_data, pie_chart, display, exc, uncaught>>

\* time.sleep(10)
Sleep ==
    /\ pc = "sleep"
    /\ pc' = "get_file"
    /\ UNCHANGED <<tempFile, remote, file, chatFile, reply, result,
                   sentiment_data, pie_chart, display, exc, uncaught>>

\* GetFileOk that drops the handle get_file returns.
GetFileOk_NotAssigned ==
    /\ pc = "get_file"
    /\ pc' = "while"
    /\ UNCHANGED <<tempFile, remote, file, chatFile, reply, result,
                   sentiment_data, pie_chart, display, exc, uncaught>>

\* file = genai.get_file(file.name)
GetFileOk ==
    /\ pc = "get_file"
    /\ file' = remote
    /\ pc' = "while"
    /\ UNCHANGED <<tempFile, remote, chatFile, reply, result, sentiment_data,
                   pie_chart, display, exc, uncaught>>

GetFileRaises ==
    /\ pc = "get_file"
    /\ Raise("get_file")
    /\ UNCHANGED <<tempFile, remote, file, chatFile, reply, result,
                   sentiment_data, pie_chart, display, uncaught>>

\* NotActive that rejects the FAILED state only.
NotActive_OnlyFailed(f) == f = "FAILED"

\* if file.state.name != "ACTIVE": raise Exception(...)
NotActive(f) == f # "ACTIVE"

CheckActive ==
    /\ pc = "check"
    /\ IF NotActive(file)
       THEN Raise("wait_for_file_active")
       ELSE pc' = "chat" /\ exc' = exc
    /\ UNCHANGED <<tempFile, remote, file, chatFile, reply, result,
                   sentiment_data, pie_chart, display, uncaught>>

\* model.start_chat(history=[... uploaded_file ...]); send_message; response.text
ChatOk ==
    /\ pc = "chat"
    /\ chatFile' = file
    /\ reply' \in Replies
    /\ result' = JoinLines(reply')
    /\ pc' = "show"
    /\ UNCHANGED <<tempFile, remote, file, sentiment_data, pie_chart,
                   display, exc, uncaught>>

ChatRaises ==
    /\ pc = "chat"
    /\ chatFile' = file
    /\ Raise("analysis")
    /\ UNCHANGED <<tempFile, remote, file, reply, result, sentiment_data,
                   pie_chart, display, uncaught>>

\* ShowResult that shows the success notice and the header, not the raw text.
ShowResult_NoText ==
    /\ pc = "show"
    /\ display' = display \o <<Shown("success", ""), Shown("header", "result")>>
    /\ pc' = "parse"
    /\ UNCHANGED <<tempFile, remote, file, chatFile, reply, result,
                   sentiment_data, pie_chart, exc, uncaught>>

\* st.success(...); st.write("### Sentiment Analysis Result:"); st.write(result)
ShowResult ==
    /\ pc = "show"
    /\ display' = display \o <<Shown("success", ""), Shown("header", "result"),
                               Shown("text", "result")>>
    /\ pc' = "parse"
    /\ UNCHANGED <<tempFile, remote, file, chatFile, reply, result,
                   sentiment_data, pie_chart, exc, uncaught>>

\* sentiment_data = parse_analysis_result(result); st.write("### Sentiment Distribution:")
Parse ==
    /\ pc = "parse"
    /\ LET r == parse_analysis_result(result)
       IN  /\ sentiment_data' = r
           /\ IF r.ok
              THEN /\ display' = Append(display, Shown("header", "distribution"))
                   /\ pc' = "render"
                   /\ exc' = exc
              ELSE /\ Raise("parse")
                   /\ display' = display
    /\ UNCHANGED <<tempFile, remote, file, chatFile, reply, result,
                   pie_chart, uncaught>>

\* pie_chart = generate_pie_chart(sentiment_data); st.pyplot(pie_chart)
Render ==
    /\ pc = "render"
    /\ IF PieRaises(sentiment_data.data)
       THEN /\ Raise("render")
            /\ UNCHANGED <<pie_chart, display>>
       ELSE /\ pie_chart' = generate_pie_chart(sentiment_data.data)
            /\ display' = Append(display, Shown("chart", ""))
            /\ pc' = "finally"
            /\ exc' = exc
    /\ UNCHANGED <<tempFile, remote, file, chatFile, reply, result,
                   sentiment_data, uncaught>>

\* except Exception as e: st.error(f"Error during analysis: {e}")
Except ==
    /\ pc = "except"
    /\ display' = Append(display, Shown("error", exc))
    /\ pc' = "finally"
    /\ UNCHANGED <<tempFile, remote, file, chatFile, reply, result,
                   sentiment_data, pie_chart, exc, uncaught>>

\* finally: os.remove(temp_file_path)
RemoveOk ==
    /\ pc = "finally"
    /\ tempFile' = FALSE
    /\ pc' = "done"
    /\ UNCHANGED <<remote, file, chatFile, reply, result, sentiment_data,
                   pie_chart, display, exc, uncaught>>

\* os.remove raises OSError: the file stays, the exception leaves the script.
RemoveRaises ==
    /\ pc = "finally"
    /\ uncaught' = "cleanup"
    /\ pc' = "done"
    /\ UNCHANGED <<tempFile, remote, file, chatFile, reply, result,
                   sentiment_data, pie_chart, display, exc>>

\* The steps of wait_for_file_active.
Poller == WhileTest \/ Sleep \/ GetFileOk \/ GetFileRaises \/ CheckActive

Script ==
    \/ PersistOk \/ PersistOpenRaises \/ PersistWriteRaises
    \/ UploadOk \/ UploadRaises
    \/ Poller
    \/ ChatOk \/ ChatRaises
    \/ ShowResult \/ Parse \/ Render \/ Except
    \/ RemoveOk \/ RemoveRaises

Next == Script \/ RemoteStep

Spec == Init /\ [][Next]_vars

\* The script is the only thread: inside wait_for_file_active it runs on as
\* long as it has a step to take.
FairSpec == Spec /\ WF_vars(Poller)

----------------------------------------------------------------------------
(* Vocabulary of the properties. *)

Labels == {Positive, Negative, Neutral}

\* The line mentions none of the three labels.
Unrelated(line) == \A lab \in Labels : ~Contains(line, lab)

\* The labels a line mentions.
Mentioned(line) == {lab \in Labels : Contains(line, lab)}

\* parse_analysis_result has run in this invocation.
Parsed == sentiment_data # None

\* A dict as a mapping, without the order of its keys.
Keys(data) == {data[i][1] : i \in 1..Len(data)}
Tally(data) ==
    [k \in Keys(data) |-> data[CHOOSE i \in 1..Len(data) : data[i][1] = k][2]]

\* The lines of r without the i-th.
Without(r, i) == [j \in 1..(Len(r) - 1) |-> IF j < i THEN r[j] ELSE r[j + 1]]

\* The number written on a readable label line.
Written(line) ==
    CASE line = LinePositive40 -> 40
      [] line = LineNegative10 -> 10
      [] line = LineNeutral50  -> 50
      [] line = LinePositive70 -> 70
      [] line = LineNegative20 -> 20
      [] line = LineNeutral10  -> 10
      [] line = LineBelowZero  -> 0 - 5

Last(S) == CHOOSE i \in S : \A j \in S : j <= i

ShownKinds == {display[i].kind : i \in 1..Len(display)}

----------------------------------------------------------------------------
(* C1 *)

\* C1: once an invocation has ended, the temporary file it created no
\* longer exists on disk.
C1_TempFileRemoved == pc = "done" => ~tempFile

----------------------------------------------------------------------------
(* C2 *)

\* C2: the chat session is started only with a handle whose last observed
\* state is ACTIVE, whatever states the remote service went through.
C2_AnalyzerGetsActive ==
    /\ chatFile \in {"NONE", "ACTIVE"}
    /\ pc = "chat" => file = "ACTIVE"

\* The chat was started, with an ACTIVE handle, and has replied.
C2_Witness == chatFile = "ACTIVE" /\ file = "ACTIVE" /\ pc = "show"

----------------------------------------------------------------------------
(* C3 *)

\* C3: no failure leaves the script uncaught, and every failure is shown to
\* the user as an error message.
C3_NoFailureEscapes ==
    /\ uncaught = "none"
    /\ (pc = "done" /\ exc # "none") => Shown("error", exc) \in
                                          {display[i] : i \in 1..Len(display)}

----------------------------------------------------------------------------
(* C4 *)

\* The reply holds the three well-formed label lines, in any order, and
\* beside them only lines that mention no label.
C4_ThreeLinesAndExtras ==
    /\ \A l \in WellFormedLines : \E i \in 1..Len(reply) : reply[i] = l
    /\ \A i \in 1..Len(reply) : reply[i] \in WellFormedLines \/ Unrelated(reply[i])

\* C4: a text with the lines Positive: 40%, Negative: 10%, Neutral: 50% in
\* any order, with extra lines that mention no label, parses to exactly
\* {Positive: 40, Negative: 10, Neutral: 50}.
C4_ParsesThreeLines ==
    (Parsed /\ C4_ThreeLinesAndExtras) =>
        /\ sentiment_data.ok
        /\ Tally(sentiment_data.data) =
             [k \in Labels |-> IF k = Positive THEN 40
                               ELSE IF k = Negative THEN 10 ELSE 50]

C4_Witness ==
    /\ pc = "done"
    /\ reply = <<LineNeutral50, LineTotal, LinePositive40, LineNegative10>>
    /\ sentiment_data.ok

----------------------------------------------------------------------------
(* C5 *)

\* C5: when one of the three labels is absent from the text the parser
\* fails with a ValueError, and whenever it returns the result has exactly
\* three entries, one per label.
C5_AllThreeOrError ==
    Parsed =>
        /\ (\E lab \in Labels : ~Contains(result, lab)) =>
               (~sentiment_data.ok /\ sentiment_data.exc = "ValueError")
        /\ sentiment_data.ok =>
               /\ Len(sentiment_data.data) = 3
               /\ Keys(sentiment_data.data) = Labels

C5_Witness ==
    /\ pc = "done"
    /\ Contains(result, Positive) /\ Contains(result, Negative)
    /\ ~Contains(result, Neutral)
    /\ sentiment_data.exc = "ValueError"
    /\ exc = "parse"

----------------------------------------------------------------------------
(* C6 *)

\* C6: when lines for the same label appear more than once (every line
\* being for one label at most) and the parser returns, the label has the
\* value of its last line.
C6_LastWriteWins ==
    (/\ Parsed
     /\ sentiment_data.ok
     /\ \A i \in 1..Len(reply) : Cardinality(Mentioned(reply[i])) <= 1) =>
        \A lab \in Labels :
            LET occ == {i \in 1..Len(reply) : lab \in Mentioned(reply[i])}
            IN  Cardinality(occ) >= 2 =>
                    Tally(sentiment_data.data)[lab] = Written(reply[Last(occ)])

C6_Witness ==
    /\ pc = "done"
    /\ reply = <<LineNegative10, LinePositive40, LineNeutral50, LineNegative20>>
    /\ sentiment_data.ok
    /\ Tally(sentiment_data.data)[Negative] = 20

----------------------------------------------------------------------------
(* C7 *)

\* C7: a line that mentions no label does not change the parser's outcome:
\* the text without the line has the same mapping, or the same failure.
C7_ExtraLinesIgnored ==
    Parsed =>
        \A i \in 1..Len(reply) :
            Unrelated(reply[i]) =>
                parse_analysis_result(JoinLines(Without(reply, i))) = sentiment_data

C7_Witness ==
    /\ pc = "done"
    /\ reply = <<LinePositive40, LineLowerCase, LineNegative10, LineNeutral50>>
    /\ sentiment_data.ok

----------------------------------------------------------------------------
(* C8 *)

\* C8: for a raw text without a Neutral line the success notice and the raw
\* text are shown, then a parse error, and no chart; the raw text is always
\* shown before parsing, and a chart only after a parse that returned.
C8_RawTextThenParseError ==
    /\ (Parsed /\ ~Contains(result, Neutral)) =>
           /\ Len(display) >= 3
           /\ SubSeq(display, 1, 3) = <<Shown("success", ""),
                                        Shown("header", "result"),
                                        Shown("text", "result")>>
           /\ "chart" \notin ShownKinds
           /\ pie_chart = <<>>
           /\ pc # "render"
           /\ pc \in {"finally", "done"} =>
                  /\ Len(display) = 4
                  /\ display[4] = Shown("error", "parse")
    /\ Parsed => "text" \in ShownKinds
    /\ \A i \in 1..Len(display) :
           display[i].kind = "chart" =>
               /\ sentiment_data.ok
               /\ \E j \in 1..(i - 1) : display[j].kind = "text"

C8_Witness ==
    /\ pc = "done"
    /\ reply = <<LinePositive40, LineNegative10>>
    /\ Len(display) = 4
    /\ display[4] = Shown("error", "parse")

----------------------------------------------------------------------------
(* C9 *)

\* The steps of wait_for_file_active: the loop goes on, one sleep and one
\* get_file per iteration, as long as the observed state is PROCESSING; it
\* returns for ACTIVE and raises for any other state.
C9_PollerStep ==
    pc' # pc =>
        /\ pc = "while" =>
               pc' = IF file = "PROCESSING" THEN "sleep" ELSE "check"
        /\ pc = "sleep" => pc' = "get_file"
        /\ pc = "get_file" =>
               \/ pc' = "while"
               \/ pc' = "except" /\ exc' = "get_file"
        /\ pc = "check" =>
               IF file = "ACTIVE" THEN pc' = "chat"
               ELSE /\ pc' = "except"
                    /\ exc' = "wait_for_file_active"
                    /\ file # "PROCESSING"

\* C9: the poller loops while the state is PROCESSING, without a cap; once
\* the remote state has stopped being PROCESSING for good the poller ends;
\* while the remote state stays PROCESSING it never returns.
C9_PollerWaits ==
    /\ [][C9_PollerStep]_vars
    /\ <>[](remote # "PROCESSING") => <>[](pc \notin PollPcs)
    /\ [](pc \in PollPcs => remote = "PROCESSING") => [](pc # "chat")

\* The poller has slept on a PROCESSING file that is ACTIVE by now.
C9_Witness == pc = "get_file" /\ file = "PROCESSING" /\ remote = "ACTIVE"

----------------------------------------------------------------------------
(* C10 *)

ColorOf(lab) ==
    IF lab = Positive THEN "green" ELSE IF lab = Negative THEN "red" ELSE "yellow"

\* C10: the chart of a parsed tally has three slices, labelled with the
\* mapping's keys, Positive green, Negative red, Neutral yellow, the
\* Positive and Negative slices offset.
C10_FixedColors ==
    pie_chart # <<>> =>
        /\ Len(pie_chart) = 3
        /\ {pie_chart[i].label : i \in 1..Len(pie_chart)} =
               Keys(sentiment_data.data)
        /\ \A i \in 1..Len(pie_chart) :
               /\ pie_chart[i].color = ColorOf(pie_chart[i].label)
               /\ pie_chart[i].explode =
                      IF pie_chart[i].label \in {Positive, Negative} THEN 1 ELSE 0

====
